---------------------------- MODULE Spec2Model ----------------------------
(***************************************************************************)
(* A model of the Nimpretty editor plugin (src/nimpretty.py): the command *)
(* runner (Command), the stderr parser (Error.parse_stderr), the format    *)
(* orchestration (Formatter, run_formatter) and the event listener         *)
(* (NimprettyListener).                                                    *)
(*                                                                         *)
(* Text (buffer contents, file contents, stderr, file names) is a sequence *)
(* of one-character strings, so that splitting, matching, substitution and *)
(* newline translation are computed character by character.               *)
(***************************************************************************)
EXTENDS Integers, Sequences, FiniteSets, TLC

VARIABLES
    buffer,        \* buffer[v]: the text of view v
    viewport,      \* viewport[v]: the scroll position of view v
    view_errors,   \* the module-level dict view.id() -> list of Error
    status,        \* status[v]: the view's status text under key 'nimpretty'
    regions,       \* regions[v]: the view's regions under key 'nimpretty'
    panel,         \* the window's output panel 'nimpretty'
    files,         \* the temporary files on disk: name -> content
    timers,        \* callbacks queued with sublime.set_timeout
    dialogs,       \* number of error dialogs shown with sublime.error_message
    popup,         \* the popup currently shown by view.show_popup
    format_on_save,\* the setting 'format_on_save'
    attempts,      \* number of run_formatter calls made so far
    last,          \* history: what the most recent run_formatter call did
    recent,        \* history: recent[v] is the outcome of v's most recent attempt
    pin,           \* input of a stand-alone Error.parse_stderr call
    pout           \* its result

vars == <<buffer, viewport, view_errors, status, regions, panel, files, timers,
          dialogs, popup, format_on_save, attempts, last, recent, pin, pout>>

mainVars == <<buffer, viewport, view_errors, status, regions, panel, files,
              timers, dialogs, popup, format_on_save, attempts, last, recent>>

-----------------------------------------------------------------------------
(* Characters *)

LF == "\n"
CR == "\r"
TAB == "\t"
FF == "\f"
\* a byte that is not valid UTF-8
BAD == "\\xff"

Digits == {"0", "1", "2", "3", "4", "5", "6", "7", "8", "9"}

\* the characters the pattern's \s matches
Whitespace == {" ", TAB, LF, CR, FF}

\* the line boundaries of str.splitlines
LineBreaks == {LF, CR, FF}

STDIN_NAME == <<"<", "s", "t", "a", "n", "d", "a", "r", "d", " ", "i", "n", "p", "u", "t", ">">>

ANONYMOUS == <<"<", "a", "n", "o", "n", "y", "m", "o", "u", "s", " ", "b", "u", "f", "f", "e", "r", ">">>

NIMPRETTY == <<"n", "i", "m", "p", "r", "e", "t", "t", "y">>

Range(s) == {s[i] : i \in 1..Len(s)}

MaxOf(S) == CHOOSE x \in S : \A y \in S : y <= x

-----------------------------------------------------------------------------
(* Python's text primitives *)

DigitVal(c) ==
    CASE c = "0" -> 0 [] c = "1" -> 1 [] c = "2" -> 2 [] c = "3" -> 3
      [] c = "4" -> 4 [] c = "5" -> 5 [] c = "6" -> 6 [] c = "7" -> 7
      [] c = "8" -> 8 [] c = "9" -> 9

\* int(s) of a string of decimal digits
RECURSIVE int(_)
int(ds) ==
    IF ds = <<>> THEN 0
    ELSE 10 * int(SubSeq(ds, 1, Len(ds) - 1)) + DigitVal(ds[Len(ds)])

\* whether s holds the string old at position i
StartsWithAt(s, i, old) ==
    /\ i + Len(old) - 1 <= Len(s)
    /\ \A k \in 1..Len(old) : s[i + k - 1] = old[k]

\* str.replace(old, new): the leftmost non-overlapping occurrences, from i on
RECURSIVE ReplaceFrom(_, _, _, _)
ReplaceFrom(s, i, old, new) ==
    IF i > Len(s) THEN <<>>
    ELSE IF StartsWithAt(s, i, old)
         THEN new \o ReplaceFrom(s, i + Len(old), old, new)
         ELSE <<s[i]>> \o ReplaceFrom(s, i + 1, old, new)

replace(s, old, new) == ReplaceFrom(s, 1, old, new)

\* index of the first line boundary of s at or after i, 0 when there is none
RECURSIVE FirstBreak(_, _)
FirstBreak(s, i) ==
    IF i > Len(s) THEN 0
    ELSE IF s[i] \in LineBreaks THEN i ELSE FirstBreak(s, i + 1)

\* str.splitlines(): CR LF counts as one boundary, and a final boundary opens
\* no further line
RECURSIVE splitlines(_)
splitlines(s) ==
    IF s = <<>> THEN <<>>
    ELSE LET i == FirstBreak(s, 1) IN
         IF i = 0 THEN <<s>>
         ELSE LET n == IF s[i] = CR /\ i < Len(s) /\ s[i + 1] = LF THEN 2 ELSE 1
              IN  <<SubSeq(s, 1, i - 1)>> \o splitlines(SubSeq(s, i + n, Len(s)))

\* os.path.basename: what follows the last "/"
basename(path) ==
    LET slashes == {i \in 1..Len(path) : path[i] = "/"} IN
    IF slashes = {} THEN path
    ELSE SubSeq(path, MaxOf(slashes) + 1, Len(path))

\* "\n".join(parts)
RECURSIVE join(_, _)
join(sep, parts) ==
    IF parts = <<>> THEN <<>>
    ELSE IF Len(parts) = 1 THEN parts[1]
    ELSE parts[1] \o sep \o join(sep, Tail(parts))

\* bytes.decode('utf-8') raises UnicodeDecodeError on an invalid byte
DecodeRaises(bytes) == BAD \in Range(bytes)

-----------------------------------------------------------------------------
(* The host's view of a text: rows are separated by LF *)

\* offset of the first character of the 0-based row
RECURSIVE RowStart(_, _, _)
RowStart(text, row, from) ==
    IF row <= 0 THEN from
    ELSE LET later == {i \in (from + 1)..Len(text) : text[i] = LF} IN
         IF later = {} THEN Len(text)
         ELSE RowStart(text, row - 1, CHOOSE i \in later : \A j \in later : i <= j)

\* view.text_point(row, col), kept inside the buffer
text_point(text, row, col) ==
    LET p == RowStart(text, row, 0) + col IN
    IF p < 0 THEN 0 ELSE IF p > Len(text) THEN Len(text) ELSE p

\* view.line(a).end(): the offset of the end of the line holding offset a
RECURSIVE line_end(_, _)
line_end(text, a) ==
    IF a >= Len(text) \/ text[a + 1] = LF THEN a ELSE line_end(text, a + 1)

\* view.rowcol(point)[0]
rowcol_row(text, point) == Cardinality({i \in 1..point : i <= Len(text) /\ text[i] = LF})

-----------------------------------------------------------------------------
(* Error.line_re: anything, "(", digits, ", ", digits, ")", whitespace, rest *)

\* end of the longest run of characters of S that starts at i (i - 1: no run)
RECURSIVE RunEnd(_, _, _)
RunEnd(s, i, S) ==
    IF i <= Len(s) /\ s[i] \in S THEN RunEnd(s, i + 1, S) ELSE i - 1

\* "." matches any character but LF
DotStar(s, i, j) == \A k \in i..j : s[k] # LF

\* the pattern from its "(" on, matched with that "(" at position p: the groups
\* are the two digit runs and what follows the whitespace
GroupAt(s, p) ==
    LET a == RunEnd(s, p + 1, Digits)
        b == RunEnd(s, a + 3, Digits)
        c == RunEnd(s, b + 2, Whitespace)
    IN  [ok |-> /\ s[p] = "("
                /\ a >= p + 1
                /\ a + 2 <= Len(s) /\ s[a + 1] = "," /\ s[a + 2] = " "
                /\ b >= a + 3
                /\ b + 1 <= Len(s) /\ s[b + 1] = ")"
                /\ c >= b + 2
                /\ DotStar(s, c + 1, Len(s)),
         g1 |-> SubSeq(s, p + 1, a),
         g2 |-> SubSeq(s, a + 3, b),
         g3 |-> SubSeq(s, c + 1, Len(s))]

\* the places where the pattern can match after its leading "anything"
MatchPlaces(s) == {p \in 1..Len(s) : DotStar(s, 1, p - 1) /\ GroupAt(s, p).ok}

\* the leading "anything" is greedy: of the possible places the last one is taken
PickPlace(P) == MaxOf(P)

\* line_re.match(raw_text)
line_re_match(s) ==
    LET P == MatchPlaces(s) IN
    IF P = {} THEN [ok |-> FALSE, g1 |-> <<>>, g2 |-> <<>>, g3 |-> <<>>]
    ELSE GroupAt(s, PickPlace(P))

-----------------------------------------------------------------------------
(* class Error *)

Error(text, region, row, col, filename) ==
    [text |-> text, region |-> region, row |-> row, col |-> col,
     filename |-> filename]

\* ErrorOfMatch with the formatter's one-based row and column kept
ErrorOfMatch_OneBased(m, fn, text) ==
    LET row == int(m.g1)
        col == int(m.g2)
        a == text_point(text, row, col)
        b == line_end(text, a)
    IN  Error(m.g3, <<a, b>>, row, col, fn)

\* the body of the loop of parse_stderr for one matching line
ErrorOfMatch(m, fn, text) ==
    LET row == int(m.g1) - 1
        col == int(m.g2) - 1
        a == text_point(text, row, col)
        b == line_end(text, a)
    IN  Error(m.g3, <<a, b>>, row, col, fn)

\* ErrorsOfLines with each error put in front of the list
RECURSIVE ErrorsOfLines_Prepend(_, _, _)
ErrorsOfLines_Prepend(lines, fn, text) ==
    IF lines = <<>> THEN <<>>
    ELSE LET m == line_re_match(lines[1]) IN
         ErrorsOfLines_Prepend(Tail(lines), fn, text)
             \o (IF m.ok THEN <<ErrorOfMatch(m, fn, text)>> ELSE <<>>)

\* the loop of parse_stderr: lines that do not match are skipped, the others
\* are appended in order
RECURSIVE ErrorsOfLines(_, _, _)
ErrorsOfLines(lines, fn, text) ==
    IF lines = <<>> THEN <<>>
    ELSE LET m == line_re_match(lines[1]) IN
         (IF m.ok THEN <<ErrorOfMatch(m, fn, text)>> ELSE <<>>)
             \o ErrorsOfLines(Tail(lines), fn, text)

\* Error.parse_stderr(stderr, view), for a view with the given file name
\* (<<>>: not saved) and text; stderr is what Popen.communicate returned, bytes
parse_stderr(stderr, file_name, text) ==
    IF DecodeRaises(stderr) THEN [raised |-> TRUE, errors |-> <<>>]
    ELSE LET fn == IF file_name # <<>> THEN basename(file_name) ELSE ANONYMOUS
             s == IF file_name # <<>> THEN replace(stderr, STDIN_NAME, fn)
                  ELSE stderr
         IN  [raised |-> FALSE, errors |-> ErrorsOfLines(splitlines(s), fn, text)]

-----------------------------------------------------------------------------
(* Stand-alone calls of Error.parse_stderr.  Each input line is written from *)
(* its parts, the way the formatter prints a diagnostic, or is a line that   *)
(* is no diagnostic; the parts are kept beside the text that is parsed.      *)

\* most lines of one stderr text
MaxLines == 2

Num(digits, val) == [digits |-> digits, val |-> val]

\* the line NAME(R, C)<ws>TEXT; ph: TEXT ends with the placeholder name
Diag(name, r, c, ws, text, ph) ==
    [match |-> TRUE, name |-> name, r |-> r, c |-> c, ws |-> ws, text |-> text,
     ph |-> ph, raw |-> <<>>]

Junk(raw) ==
    [match |-> FALSE, name |-> <<>>, r |-> Num(<<>>, 0), c |-> Num(<<>>, 0),
     ws |-> <<>>, text |-> <<>>, ph |-> FALSE, raw |-> raw]

FILE_NIM == <<"f", "i", "l", "e", ".", "n", "i", "m">>

FOO_NIM == <<"f", "o", "o", ".", "n", "i", "m">>

EXPECTED_TOKEN == <<"e", "x", "p", "e", "c", "t", "e", "d", " ", "t", "o", "k", "e", "n">>

INVALID_INDENTATION == <<"E", "r", "r", "o", "r", ":", " ", "i", "n", "v", "a", "l", "i", "d", " ", "i", "n", "d", "e", "n", "t", "a", "t", "i", "o", "n">>

DiagLines ==
    { Diag(FILE_NIM, Num(<<"3">>, 3), Num(<<"5">>, 5), <<" ">>, EXPECTED_TOKEN, FALSE),
      Diag(STDIN_NAME, Num(<<"1">>, 1), Num(<<"5">>, 5), <<" ">>, INVALID_INDENTATION, FALSE),
      Diag(<<"f">>, Num(<<"1", "2">>, 12), Num(<<"0", "7">>, 7), <<TAB, " ">>, <<"x">>, FALSE),
      Diag(<<>>, Num(<<"1">>, 1), Num(<<"1">>, 1), <<" ">>, <<>>, FALSE),
      Diag(<<"g", "(", "1", ",", " ", "2", ")", " ", "h">>, Num(<<"2">>, 2), Num(<<"1">>, 1),
           <<" ">>, <<"y">>, FALSE),
      Diag(<<"f">>, Num(<<"0">>, 0), Num(<<"0">>, 0), <<" ">>, <<"z">>, FALSE),
      Diag(<<"f">>, Num(<<"1">>, 1), Num(<<"1">>, 1), <<" ">>, <<"i", "n", " ">>, TRUE) }

JunkLines ==
    { Junk(<<"H", "i", "n", "t", ":", " ", "o", "k">>),
      Junk(<<"f", "(", "1", ",", "2", ")", " ", "x">>),
      Junk(<<"f", "(", "1", ",", " ", "2", ")", "x">>),
      Junk(<<"f", "(", "a", ",", " ", "2", ")", " ", "x">>),
      Junk(<<"f", "(", "1", ",", " ", "2">>),
      Junk(<<"(", ",", " ", "1", ")", " ", "x">>),
      Junk(<<BAD>>) }

\* the text of an input line
Render(l) ==
    IF l.match
    THEN l.name \o <<"(">> \o l.r.digits \o <<",", " ">> \o l.c.digits \o <<")">>
             \o l.ws \o l.text \o (IF l.ph THEN STDIN_NAME ELSE <<>>)
    ELSE l.raw

\* the sequences of at most n elements of S
RECURSIVE SeqsUpTo(_, _)
SeqsUpTo(S, n) ==
    IF n = 0 THEN {<<>>}
    ELSE LET shorter == SeqsUpTo(S, n - 1) IN
         shorter \cup {Append(q, x) : q \in {t \in shorter : Len(t) = n - 1}, x \in S}

RenderAll(ls) == [i \in 1..Len(ls) |-> Render(ls[i])]

\* the file names and the text of the view the diagnostics are parsed against
ParseFileNames == {<<"/", "p", "/">> \o FOO_NIM, <<"/", "p", "/">> \o FILE_NIM, <<>>}

ParseText == <<"a", "b", LF, "c", "d", "e", "f", "g", LF, "h">>

ParseInputs ==
    [lines : SeqsUpTo(DiagLines \cup JunkLines, MaxLines),
     sep : {<<LF>>, <<CR, LF>>},
     file_name : ParseFileNames]

NoParse == [lines |-> <<>>, sep |-> <<>>, file_name |-> <<>>]

NotParsed == [done |-> FALSE, raised |-> FALSE, errors |-> <<>>]

\* the stderr text of an input: its lines, each ended by the separator
StderrOf(in) ==
    LET body == join(in.sep, RenderAll(in.lines)) IN
    IF in.lines = <<>> THEN <<>> ELSE body \o in.sep

ParseStep ==
    /\ ~pout.done
    /\ pin # NoParse
    /\ LET r == parse_stderr(StderrOf(pin), pin.file_name, ParseText) IN
       pout' = [done |-> TRUE, raised |-> r.raised, errors |-> r.errors]
    /\ UNCHANGED <<pin, mainVars>>

-----------------------------------------------------------------------------
(* The views, the settings and the environment of one format attempt *)

\* most format attempts in one behaviour
MaxAttempts == 2

\* view 1 is a saved Nim file, view 2 an unsaved Nim buffer, view 3 a saved
\* text file
Views == {1, 2, 3}

file_name(v) ==
    CASE v = 1 -> <<"/", "p", "/">> \o FOO_NIM
      [] v = 2 -> <<>>
      [] v = 3 -> <<"/", "p", "/", "n", "o", "t", "e", "s", ".", "t", "x", "t">>

\* view.score_selector(0, 'source.nim')
score_selector(v) == IF v \in {1, 2} THEN 1 ELSE 0

is_nim_source(v) == score_selector(v) # 0

\* view.window().folders()
folders == << <<"/", "p">> >>

\* settings.get('cmd', ['nimpretty'])
cmd == <<NIMPRETTY>>

is_windows == FALSE

InitBuffer ==
    [v \in Views |->
        CASE v = 1 -> <<"x", "=", "1", LF, "y">>
          [] v = 2 -> <<"x", CR, "y">>
          [] v = 3 -> <<"n", "o", "t", "e">>]

\* what the formatter leaves in the file it is given
Formatted == <<"x", " ", "=", " ", "1", LF, "y", LF>>

FormatterWrites ==
    {[rewrite |-> FALSE, content |-> <<>>], [rewrite |-> TRUE, content |-> Formatted]}

\* what the formatter prints on stderr
StderrSamples ==
    { <<>>,
      <<"f", "(", "1", ",", " ", "1", ")", " ", "A", LF>>
          \o STDIN_NAME \o <<"(", "2", ",", " ", "1", ")", " ", "B", LF>>
          \o <<"f", "(", "1", ",", " ", "2", ")", " ", "C", LF>>,
      <<"H", "i", "n", "t", LF>>,
      <<BAD>> }

ExitCodes == {0, 1}

\* What can go wrong in one attempt:
\*   mkstemp   tempfile.mkstemp raises OSError
\*   write     writing the temporary file raises OSError
\*   popen     subprocess.Popen raises FileNotFoundError (no such binary)
\*   read      reading the temporary file back raises OSError
\*   nowindow  view.window() is None, so every use of the window raises
\*             AttributeError
Env(fault, fmt, stderr, rc) ==
    [fault |-> fault, fmt |-> fmt, stderr |-> stderr, rc |-> rc]

Envs ==
    {Env(f, [rewrite |-> FALSE, content |-> <<>>], <<>>, 0) :
        f \in {"mkstemp", "write", "popen"}}
    \cup {Env("read", w, <<>>, 0) : w \in FormatterWrites}
    \cup {Env(f, w, e, rc) : f \in {"none", "nowindow"}, w \in FormatterWrites,
                             e \in StderrSamples, rc \in ExitCodes}

Put(f, k, val) == [x \in DOMAIN f \cup {k} |-> IF x = k THEN val ELSE f[x]]

Drop(f, k) == [x \in DOMAIN f \ {k} |-> f[x]]

-----------------------------------------------------------------------------
(* Text files *)

\* what open(name, 'w').write(text) stores: LF becomes os.linesep
RECURSIVE WriteText(_)
WriteText(text) ==
    IF text = <<>> THEN <<>>
    ELSE (IF text[1] = LF /\ is_windows THEN <<CR, LF>> ELSE <<text[1]>>)
             \o WriteText(Tail(text))

\* what open(name).read() returns: CR LF and CR become LF
RECURSIVE ReadText(_)
ReadText(bytes) ==
    IF bytes = <<>> THEN <<>>
    ELSE IF bytes[1] = CR
         THEN <<LF>> \o ReadText(IF Len(bytes) > 1 /\ bytes[2] = LF
                                 THEN SubSeq(bytes, 3, Len(bytes))
                                 ELSE Tail(bytes))
         ELSE <<bytes[1]>> \o ReadText(Tail(bytes))

\* tempfile.mkstemp: a name no file has
mkstemp(fs) == CHOOSE n \in 1..(Cardinality(DOMAIN fs) + 1) :
                   /\ n \notin DOMAIN fs
                   /\ \A m \in 1..(n - 1) : m \in DOMAIN fs

-----------------------------------------------------------------------------
(* guess_cwd and class Command *)

dirname(path) ==
    LET slashes == {i \in 1..Len(path) : path[i] = "/"} IN
    IF slashes = {} THEN <<>> ELSE SubSeq(path, 1, MaxOf(slashes) - 1)

guess_cwd(v, window) ==
    IF file_name(v) # <<>>
    THEN [raised |-> FALSE, cwd |-> dirname(file_name(v))]
    ELSE IF ~window THEN [raised |-> TRUE, cwd |-> <<>>]
    ELSE IF Len(folders) # 0 THEN [raised |-> FALSE, cwd |-> folders[1]]
    ELSE [raised |-> FALSE, cwd |-> <<>>]

\* Command.__init__: the temporary file is created, empty
Command_init(fs, env) ==
    IF env.fault = "mkstemp"
    THEN [raised |-> TRUE, tmpname |-> 0, files |-> fs]
    ELSE [raised |-> FALSE, tmpname |-> mkstemp(fs),
          files |-> Put(fs, mkstemp(fs), <<>>)]

\* the last statement of Command.run before it returns
remove(fs, name) == Drop(fs, name)

\* Command.run(stdin)
Command_run(fs, v, tmpname, stdin, env) ==
    \* ran: the call returned
    LET none == [raised |-> TRUE, ran |-> FALSE, stdout |-> <<>>,
                 stderr |-> <<>>, rc |-> 0, files |-> fs]
        written == Put(fs, tmpname, WriteText(stdin))
        formatted == IF env.fmt.rewrite
                     THEN Put(written, tmpname, env.fmt.content)
                     ELSE written
    IN  IF guess_cwd(v, env.fault # "nowindow").raised THEN none
        ELSE IF env.fault = "write" THEN none
        ELSE IF env.fault = "popen" THEN [none EXCEPT !.files = written]
        ELSE IF env.fault = "read"
             THEN [none EXCEPT !.files = formatted]
        ELSE [raised |-> FALSE, ran |-> TRUE,
              stdout |-> ReadText(formatted[tmpname]),
              stderr |-> env.stderr, rc |-> env.rc,
              files |-> remove(formatted, tmpname)]

-----------------------------------------------------------------------------
(* class Formatter *)

\* str(n) for a small number
RECURSIVE str(_)
str(n) ==
    LET d == CHOOSE c \in Digits : DigitVal(c) = n % 10 IN
    IF n < 10 THEN <<d>> ELSE str(n \div 10) \o <<d>>

\* '{} failed with return code {}'.format(cmd.name, return_code)
FailedStatus(name, return_code) ==
    name \o <<" ", "f", "a", "i", "l", "e", "d", " ", "w", "i", "t", "h", " ",
              "r", "e", "t", "u", "r", "n", " ", "c", "o", "d", "e", " ">>
         \o str(return_code)

NoPanel == [exists |-> FALSE, content |-> <<>>, visible |-> FALSE]

\* Formatter._show_error_panel: the panel is created if there is none and its
\* content replaced; nothing here opens it
show_error_panel(pn, errors) ==
    [exists |-> TRUE,
     content |-> join(<<LF>>, [i \in 1..Len(errors) |-> errors[i].text]),
     visible |-> pn.visible]

\* Formatter._show_error_regions: the regions handed to view.add_regions
show_error_regions(errors) == [i \in 1..Len(errors) |-> errors[i].region]

\* _hide_error_panel that hides nothing
hide_error_panel_Noop(pn) == pn

\* Formatter._hide_error_panel
hide_error_panel(pn) == [pn EXCEPT !.visible = FALSE]

\* Formatter._clear_errors: the status and the regions it leaves
clear_errors == [status |-> <<>>, regions |-> <<>>]

\* _show_errors that marks the regions before it makes the panel
show_errors_RegionsFirst(d, errors, return_code, window) ==
    LET d1 == [d EXCEPT !.status = FailedStatus(cmd[1], return_code),
                        !.statusSet = TRUE,
                        !.regions = show_error_regions(errors),
                        !.regionsSet = TRUE]
        d2 == [d1 EXCEPT !.panel = show_error_panel(d.panel, errors),
                         !.panelSet = TRUE]
    IN  IF ~window THEN [d1 EXCEPT !.exc = "Exception"]
        ELSE d2

\* Formatter._show_errors(errors, return_code, cmd) for a view whose status,
\* regions and panel are in d
show_errors(d, errors, return_code, window) ==
    LET d1 == [d EXCEPT !.status = FailedStatus(cmd[1], return_code),
                        !.statusSet = TRUE]
        d2 == [d1 EXCEPT !.panel = show_error_panel(d.panel, errors),
                         !.panelSet = TRUE]
        d3 == [d2 EXCEPT !.regions = show_error_regions(errors),
                         !.regionsSet = TRUE]
    IN  IF ~window THEN [d1 EXCEPT !.exc = "Exception"]
        ELSE d3

\* the failure test with stderr left out
Failed_ExitCodeOnly(stderr, return_code) == return_code # 0

\* whether Formatter.format takes the failure path
Failed(stderr, return_code) == stderr # <<>> \/ return_code # 0

\* Formatter.format(region), region being the whole buffer of view v: what it
\* leaves displayed, what it returns (code) or raises (exc)
Formatter_format(v, text, pn, fs, tmpname, env) ==
    LET window == env.fault # "nowindow"
        \* from the return of self.cmd.run on, run being what it returned or
        \* that it raised
        AfterRun(run) ==
            LET d0 == [exc |-> "", code |-> <<>>, errors |-> <<>>,
                       status |-> clear_errors.status,
                       regions |-> clear_errors.regions,
                       panel |-> pn, files |-> run.files,
                       ran |-> run.ran, stdout |-> run.stdout,
                       stderr |-> run.stderr, rc |-> run.rc,
                       statusSet |-> FALSE, panelSet |-> FALSE,
                       regionsSet |-> FALSE]
                \* the failure path, p being what Error.parse_stderr returned
                \* or that it raised
                AfterParse(p) ==
                    IF p.raised THEN [d0 EXCEPT !.exc = "Exception"]
                    ELSE LET d == show_errors(d0, p.errors, run.rc, window) IN
                         IF d.exc # "" THEN d
                         ELSE [d EXCEPT !.exc = "FormatterError",
                                        !.errors = p.errors]
            IN  IF run.raised THEN [d0 EXCEPT !.exc = "Exception"]
                ELSE IF Failed(run.stderr, run.rc)
                THEN AfterParse(parse_stderr(run.stderr, file_name(v), text))
                ELSE IF ~window THEN [d0 EXCEPT !.exc = "Exception"]
                ELSE [d0 EXCEPT !.panel = hide_error_panel(pn),
                                !.code = run.stdout]
    IN  AfterRun(Command_run(fs, v, tmpname, text, env))

-----------------------------------------------------------------------------
(* run_formatter *)

\* run_formatter that keeps the view's entry
ForgetErrors_Keep(ve, v) == ve

\* the first statement of run_formatter: the view's entry is deleted
ForgetErrors(ve, v) == Drop(ve, v)

\* view.replace called whether or not the text differs
NeedsReplace_Always(text, replacement) == TRUE

\* the guard of view.replace
NeedsReplace(text, replacement) == text # replacement

\* what the handler of FormatterError stores
StoreErrors(ve, v, errors) == Put(ve, v, errors)

\* run_formatter(edit, view, region) for view v and the whole buffer, in the
\* environment env: the new value of every part of the state it touches
run_formatter(v, env) ==
    LET ve0 == ForgetErrors(view_errors, v)
        prev_position == viewport[v]
        \* the state the call leaves, c being what Command.__init__ did and f
        \* what Formatter.format did
        Outcome(c, f) ==
            LET replaced == f.exc = "" /\ NeedsReplace(buffer[v], f.code)
                outcome == IF c.raised \/ f.exc = "Exception" THEN "EXCEPTION"
                           ELSE IF f.exc = "FormatterError" THEN "FAILED"
                           ELSE "SUCCESS"
                made == ~c.raised
            IN  [buffer |-> IF replaced THEN [buffer EXCEPT ![v] = f.code] ELSE buffer,
                 viewport |-> IF replaced THEN [viewport EXCEPT ![v] = 0] ELSE viewport,
                 view_errors |-> IF outcome = "FAILED" THEN StoreErrors(ve0, v, f.errors)
                                 ELSE ve0,
                 status |-> IF made THEN [status EXCEPT ![v] = f.status] ELSE status,
                 regions |-> IF made THEN [regions EXCEPT ![v] = f.regions] ELSE regions,
                 panel |-> IF made THEN f.panel ELSE panel,
                 files |-> IF made THEN f.files ELSE files,
                 timers |-> IF outcome = "SUCCESS"
                            THEN Append(timers, [view |-> v, position |-> prev_position])
                            ELSE timers,
                 dialogs |-> IF outcome = "EXCEPTION" THEN dialogs + 1 ELSE dialogs,
                 last |-> [view |-> v, before |-> buffer[v], tmpname |-> c.tmpname,
                           window |-> env.fault # "nowindow",
                           ran |-> made /\ f.ran,
                           stdout |-> IF made THEN f.stdout ELSE <<>>,
                           stderr |-> IF made THEN f.stderr ELSE <<>>,
                           rc |-> IF made THEN f.rc ELSE 0,
                           outcome |-> outcome, replaced |-> replaced,
                           errors |-> IF outcome = "FAILED" THEN f.errors ELSE <<>>,
                           dialog |-> outcome = "EXCEPTION",
                           statusSet |-> made /\ f.statusSet,
                           panelSet |-> made /\ f.panelSet,
                           regionsSet |-> made /\ f.regionsSet]]
        Format(c) ==
            Outcome(c, Formatter_format(v, buffer[v], panel, c.files, c.tmpname,
                                        env))
    IN  Format(Command_init(files, env))

NoPopup == [hovered |-> FALSE, view |-> 0, row |-> 0, shown |-> FALSE, html |-> <<>>]

NoCall == [view |-> 0, before |-> <<>>, tmpname |-> 0, window |-> TRUE,
           ran |-> FALSE,
           stdout |-> <<>>, stderr |-> <<>>, rc |-> 0, outcome |-> "none",
           replaced |-> FALSE, errors |-> <<>>, dialog |-> FALSE,
           statusSet |-> FALSE, panelSet |-> FALSE, regionsSet |-> FALSE]

\* one call of run_formatter as a step
RunFormatter(v, env) ==
    \E r \in {run_formatter(v, env)} :
    /\ buffer' = r.buffer
    /\ viewport' = r.viewport
    /\ view_errors' = r.view_errors
    /\ status' = r.status
    /\ regions' = r.regions
    /\ panel' = r.panel
    /\ files' = r.files
    /\ timers' = r.timers
    /\ dialogs' = r.dialogs
    /\ last' = r.last
    /\ recent' = [recent EXCEPT ![v] = [outcome |-> r.last.outcome,
                                        errors |-> r.last.errors]]
    /\ attempts' = attempts + 1
    /\ UNCHANGED <<popup, format_on_save, pin, pout>>

-----------------------------------------------------------------------------
(* The commands and event handlers.  They all run on the host's main thread, *)
(* which runs a queued timer before it takes the next event.  A popup is     *)
(* shown with HIDE_ON_MOUSE_MOVE_AWAY: it is gone before the next event, and *)
(* no handler but on_hover reads or writes it.                               *)

\* NimprettyCommand: is_enabled, then run
NimprettyCommand(v) ==
    /\ timers = <<>> /\ ~popup.hovered
    /\ attempts < MaxAttempts
    /\ is_nim_source(v)
    /\ \E env \in Envs : RunFormatter(v, env)

\* NimprettyListener.on_pre_save
on_pre_save(v) ==
    /\ timers = <<>> /\ ~popup.hovered
    /\ attempts < MaxAttempts
    /\ IF format_on_save /\ is_nim_source(v)
       THEN \E env \in Envs : RunFormatter(v, env)
       ELSE UNCHANGED vars

\* the callback run_formatter queues: view.set_viewport_position
restore ==
    /\ timers # <<>>
    /\ viewport' = [viewport EXCEPT ![Head(timers).view] = Head(timers).position]
    /\ timers' = Tail(timers)
    /\ UNCHANGED <<buffer, view_errors, status, regions, panel, files, dialogs,
                   popup, format_on_save, attempts, last, recent, pin, pout>>

\* the template filled with the zero-based row
Fragment_ZeroBased(e) == [row |-> e.row, text |-> e.text]

\* ERROR_TEMPLATE.format(row=e.row + 1, text=e.text): the two values filled in
Fragment(e) == [row |-> e.row + 1, text |-> e.text]

\* the errors a hover at the row shows
RowErrors(errors, row) == SelectSeq(errors, LAMBDA e : e.row = row)

\* NimprettyListener._show_errors_for_row(view, row, point): the popup shown
show_errors_for_row(v, row) ==
    LET errors == IF v \in DOMAIN view_errors THEN view_errors[v] ELSE <<>>
        row_errors == RowErrors(errors, row)
    IN  IF ~is_nim_source(v) \/ errors = <<>> \/ row_errors = <<>>
        THEN [hovered |-> TRUE, view |-> v, row |-> row, shown |-> FALSE,
              html |-> <<>>]
        ELSE [hovered |-> TRUE, view |-> v, row |-> row, shown |-> TRUE,
              html |-> [i \in 1..Len(row_errors) |-> Fragment(row_errors[i])]]

HoverZones == {"HOVER_TEXT", "HOVER_GUTTER"}

\* NimprettyListener.on_hover(view, point, hover_zone)
on_hover(v, point, hover_zone) ==
    /\ timers = <<>> /\ ~popup.hovered
    /\ popup' = IF hover_zone # "HOVER_TEXT" THEN NoPopup
                ELSE show_errors_for_row(v, rowcol_row(buffer[v], point))
    /\ UNCHANGED <<buffer, viewport, view_errors, status, regions, panel, files,
                   timers, dialogs, format_on_save, attempts, last, recent,
                   pin, pout>>

\* the user opens the output panel
ShowPanel ==
    /\ timers = <<>> /\ ~popup.hovered
    /\ panel.exists /\ ~panel.visible
    /\ panel' = [panel EXCEPT !.visible = TRUE]
    /\ UNCHANGED <<buffer, viewport, view_errors, status, regions, files, timers,
                   dialogs, popup, format_on_save, attempts, last, recent, pin,
                   pout>>

\* the mouse moves away from the hovered point
MouseAway ==
    /\ popup.hovered
    /\ popup' = NoPopup
    /\ UNCHANGED <<buffer, viewport, view_errors, status, regions, panel, files,
                   timers, dialogs, format_on_save, attempts, last, recent, pin,
                   pout>>

-----------------------------------------------------------------------------
(* The specifications *)

InitMain ==
    /\ buffer = InitBuffer
    /\ viewport = [v \in Views |-> 1]
    /\ view_errors = <<>>
    /\ status = [v \in Views |-> <<>>]
    /\ regions = [v \in Views |-> <<>>]
    /\ panel = NoPanel
    /\ files = <<>>
    /\ timers = <<>>
    /\ dialogs = 0
    /\ popup = NoPopup
    /\ format_on_save \in BOOLEAN
    /\ attempts = 0
    /\ last = NoCall
    /\ recent = [v \in Views |-> [outcome |-> "none", errors |-> <<>>]]

Init == InitMain /\ pin = NoParse /\ pout = NotParsed

Next ==
    \/ \E v \in Views : NimprettyCommand(v)
    \/ \E v \in Views : on_pre_save(v)
    \/ restore
    \/ \E v \in Views, z \in HoverZones : \E p \in {0, Len(buffer[v])} : on_hover(v, p, z)
    \/ ShowPanel
    \/ MouseAway

Spec == Init /\ [][Next]_vars

InitParse == InitMain /\ format_on_save /\ pin \in ParseInputs /\ pout = NotParsed

NextParse == ParseStep

SpecParse == InitParse /\ [][NextParse]_vars

-----------------------------------------------------------------------------
(* The claims.  `last` describes the most recent run_formatter call: the view *)
(* it ran on, the buffer before it, the temporary file it created (0: none), *)
(* what Command.run returned (ran: it returned), how the call ended, whether *)
(* view.replace was called, and what it displayed.                           *)

Called == last.outcome # "none"

\* the diagnostics of the stderr text Command.run returned in the last call
LastParsed == parse_stderr(last.stderr, file_name(last.view), last.before).errors

Stored(v) == v \in DOMAIN view_errors

\* Command.run returned a non-zero exit code or a non-empty stderr
FormatterFailed == last.rc # 0 \/ last.stderr # <<>>

\* C1: after any Command Runner invocation the temporary file created for it
\* no longer exists on disk, on every exit path (success, formatter failure,
\* an exception while writing the file, launching the process or reading the
\* file back).
C1_TempFileRemoved ==
    (Called /\ last.tmpname # 0) => last.tmpname \notin DOMAIN files

\* C2 as claimed: whenever the formatter returns a non-zero exit code or
\* non-empty stderr, run_formatter ends in FAILED, the buffer is as before and
\* the parsed diagnostics are stored under the view's id.
C2_FailureAlwaysFailed ==
    (last.ran /\ FormatterFailed) =>
        /\ last.outcome = "FAILED"
        /\ buffer[last.view] = last.before
        /\ Stored(last.view) /\ view_errors[last.view] = LastParsed

\* C2, amended: when the formatter returns a non-zero exit code or non-empty
\* stderr (either alone, whatever the file then holds) the buffer is left as
\* it was; run_formatter ends in FAILED with the parsed diagnostics stored
\* under the view's id, unless stderr is not valid UTF-8 or the view has no
\* window: then the exception is caught, an error dialog is shown and nothing
\* is stored for the view.
C2_FailureFailedOrDialog ==
    (last.ran /\ FormatterFailed) =>
        /\ buffer[last.view] = last.before
        /\ ~last.replaced
        /\ IF DecodeRaises(last.stderr) \/ ~last.window
           THEN last.outcome = "EXCEPTION" /\ last.dialog /\ ~Stored(last.view)
           ELSE /\ last.outcome = "FAILED" /\ ~last.dialog
                /\ Stored(last.view) /\ view_errors[last.view] = LastParsed

C2_Witness ==
    /\ last.ran /\ last.rc = 0 /\ last.stderr # <<>> /\ last.stdout # last.before
    /\ last.outcome = "FAILED" /\ Len(view_errors[last.view]) = 3

C4_SuccessState ==
    /\ last.outcome = "SUCCESS"
    /\ buffer[last.view] = last.stdout
    /\ ~Stored(last.view)
    /\ status[last.view] = <<>> /\ regions[last.view] = <<>>
    /\ ~panel.visible

C4_Case ==
    last.ran /\ ~FormatterFailed /\ last.stdout # last.before

\* C4 as claimed: when the formatter exits with code 0 and empty stderr and
\* its output differs from the buffer, the call ends in SUCCESS: the buffer
\* is the formatter's output, no diagnostics are stored for the view, its
\* status and regions are cleared and the error panel is hidden.
C4_DifferentAlwaysSuccess ==
    [][(attempts' # attempts /\ C4_Case') => C4_SuccessState']_vars

\* C4, amended: in that case the call ends in SUCCESS (buffer equal to the
\* formatter's output, no diagnostics stored, status and regions cleared,
\* panel hidden) if the view has a window; if it has none, hiding the panel
\* raises: the call ends with an error dialog, the buffer unchanged, status
\* and regions cleared, nothing stored and the panel as it was.
C4_DifferentSuccessOrDialog ==
    [][(attempts' # attempts /\ C4_Case') =>
          IF last'.window THEN C4_SuccessState' /\ last'.replaced
          ELSE /\ last'.outcome = "EXCEPTION" /\ last'.dialog
               /\ buffer' = buffer /\ panel' = panel
               /\ ~Stored(last.view)' /\ status'[last'.view] = <<>>
               /\ regions'[last'.view] = <<>>]_vars

C4_Witness ==
    /\ C4_Case /\ C4_SuccessState /\ last.replaced /\ attempts = 2
    /\ recent[last.view].outcome = "SUCCESS" /\ panel.exists

\* C5: every call of run_formatter first removes the view's entry of
\* view_errors, whatever the outcome; so view_errors holds for each view the
\* diagnostics of that view's most recent attempt if that attempt FAILED, and
\* nothing otherwise.  Entries of other views are untouched.
C5_OnlyMostRecentFailure ==
    \A v \in Views :
        IF recent[v].outcome = "FAILED"
        THEN Stored(v) /\ view_errors[v] = recent[v].errors
        ELSE ~Stored(v)

\* the second attempt on view 1 did not fail, the first one did (it made the
\* panel), and view 2 was never formatted
C5_Witness ==
    /\ attempts = 2 /\ recent[2].outcome = "none" /\ panel.exists
    /\ recent[1].outcome \in {"SUCCESS", "EXCEPTION"} /\ ~Stored(1)

C10_DisplayAgreesWithErrors ==
    \A v \in Views :
        IF Stored(v)
        THEN regions[v] = [i \in 1..Len(view_errors[v]) |-> view_errors[v][i].region]
        ELSE regions[v] = <<>> /\ status[v] = <<>>

-----------------------------------------------------------------------------
(* Claims about Error.parse_stderr, under SpecParse: pin holds the lines the *)
(* stderr text was written from, pout what parse_stderr returned for it.     *)

\* the input lines that were written as diagnostics, in order
Diagnostics(in) == SelectSeq(in.lines, LAMBDA l : l.match)

Returned == pout.done /\ ~pout.raised

\* the base name of the parsed view's file, for a saved view
DocName(in) ==
    IF in.file_name = <<"/", "p", "/">> \o FOO_NIM THEN FOO_NIM ELSE FILE_NIM

\* the text of a diagnostic line as the view's parse has it: a placeholder at
\* its end is the document's name if the view is saved
TextOf(l, in) ==
    l.text \o (IF ~l.ph THEN <<>>
               ELSE IF in.file_name # <<>> THEN DocName(in) ELSE STDIN_NAME)

\* C7: parse_stderr returns one diagnostic for each stderr line that matches
\* the pattern, in the order of those lines, with no deduplication or
\* sorting; lines that do not match contribute nothing, so a text with no
\* matching line gives the empty sequence.
C7_OnePerMatchingLineInOrder ==
    Returned =>
        LET ds == Diagnostics(pin) IN
        /\ Len(pout.errors) = Len(ds)
        /\ \A i \in 1..Len(ds) :
              /\ pout.errors[i].row = ds[i].r.val - 1
              /\ pout.errors[i].col = ds[i].c.val - 1
              /\ pout.errors[i].text = TextOf(ds[i], pin)

\* two diagnostics that sorting by row would swap
C7_Witness ==
    /\ Returned /\ Len(pin.lines) = 2 /\ Len(pout.errors) = 2
    /\ pout.errors[1].row > pout.errors[2].row

\* C8 as claimed: the line NAME(R, C) TEXT gives row R-1, col C-1, text TEXT
\* and filename NAME, the placeholder name being replaced by the document's
\* base file name.
C8_FilenameIsLineName ==
    (Returned /\ pin.file_name # <<>>) =>
        LET ds == Diagnostics(pin) IN
        \A i \in 1..Len(ds) :
            /\ i <= Len(pout.errors)
            /\ pout.errors[i].row = ds[i].r.val - 1
            /\ pout.errors[i].col = ds[i].c.val - 1
            /\ pout.errors[i].text = TextOf(ds[i], pin)
            /\ pout.errors[i].filename =
                   IF ds[i].name = STDIN_NAME THEN DocName(pin) ELSE ds[i].name

\* C8, amended: the line NAME(R, C) TEXT, (R, C) being the last such group of
\* the line, gives row R-1, col C-1 and text TEXT, in which the placeholder
\* name is replaced too when the view is saved.  The filename is not NAME: it
\* is the base file name of the document for every diagnostic, and
\* '<anonymous buffer>' when the view is not saved.  So file.nim(3, 5)
\* expected token against file.nim gives row 2, col 4, filename file.nim, and
\* <standard input>(1, 5) Error: invalid indentation against foo.nim gives
\* row 0, col 4, that text and filename foo.nim.
C8_FilenameIsDocument ==
    Returned =>
        LET ds == Diagnostics(pin) IN
        \A i \in 1..Len(ds) :
            /\ i <= Len(pout.errors)
            /\ pout.errors[i].row = ds[i].r.val - 1
            /\ pout.errors[i].col = ds[i].c.val - 1
            /\ pout.errors[i].text = TextOf(ds[i], pin)
            /\ pout.errors[i].filename =
                   IF pin.file_name # <<>> THEN DocName(pin) ELSE ANONYMOUS

\* the second example of the claim
C8_Witness ==
    /\ Returned /\ pin.file_name = <<"/", "p", "/">> \o FOO_NIM
    /\ Len(pin.lines) = 1 /\ pin.lines[1].name = STDIN_NAME
    /\ Len(pout.errors) = 1
    /\ pout.errors[1].row = 0 /\ pout.errors[1].col = 4
    /\ pout.errors[1].text = INVALID_INDENTATION
    /\ pout.errors[1].filename = FOO_NIM

-----------------------------------------------------------------------------
(* The hover popup *)

\* the diagnostics of the view's most recent attempt, if it FAILED
RecentErrors(v) ==
    IF recent[v].outcome = "FAILED" THEN recent[v].errors ELSE <<>>

\* C9: a text hover at row r of a Nim view shows a popup listing the
\* diagnostics stored by the view's most recent attempt whose row is r, each
\* with its row one-based and its message, in stored order; no popup is shown
\* when there is none, so never after an attempt that ended in SUCCESS until
\* a later attempt fails.
C9_PopupListsRowErrors ==
    popup.hovered =>
        LET es == SelectSeq(RecentErrors(popup.view), LAMBDA e : e.row = popup.row) IN
        IF is_nim_source(popup.view) /\ es # <<>>
        THEN /\ popup.shown
             /\ popup.html = [i \in 1..Len(es) |-> [row |-> popup.row + 1, text |-> es[i].text]]
        ELSE ~popup.shown

\* two of the three stored diagnostics are on the hovered row
C9_Witness ==
    /\ popup.shown /\ Len(popup.html) = 2 /\ Len(view_errors[popup.view]) = 3
    /\ popup.html[1].text # popup.html[2].text

=============================================================================
